---- MODULE Spec2Model ----
(***************************************************************************)
(* A model of cura/Settings/CuraStackBuilder.py: the three factory         *)
(* functions createMachine, createGlobalStack and createExtruderStack      *)
(* running against the container registry.                                 *)
(*                                                                         *)
(* Strings are TLA+ strings (ids are concatenated as the code does).       *)
(* Objects carry an object identity (oid); the registry is the set of      *)
(* registered objects.  A builder call is a sequence of steps, one per     *)
(* statement group of the function body; a step that calls out of the      *)
(* function may raise, and nothing in the file catches an exception.       *)
(*                                                                         *)
(* The registry, the container and stack classes and the private helpers   *)
(* __setStackVariant, __setStackMaterial and __setStackQuality are called  *)
(* by the file but their bodies are not part of it; they are modelled by   *)
(* what the design document says of them: a setter sets its layer or       *)
(* raises, addContainer makes the object visible, the naming service       *)
(* returns a name no registered container has.                             *)
(***************************************************************************)
EXTENDS Integers, Sequences, FiniteSets, TLC

VARIABLES
    registry,   \* ContainerRegistry: the set of registered containers and stacks
    log,        \* Logger: the set of messages logged so far
    m,          \* the frame of createMachine
    b,          \* the frame of createGlobalStack / createExtruderStack
    before,     \* the registry as it was when the running API call was entered
    calls       \* the number of API calls made so far

vars == <<registry, log, m, b, before, calls>>

----------------------------------------------------------------------------
(* Bounds *)

MaxMachineCalls == 2
MaxBuilderCalls == 1

----------------------------------------------------------------------------
(* Python values *)

None == "<None>"
NoObject == 0

PyNone == [t |-> "none", i |-> 0, s |-> ""]
PyInt(n) == [t |-> "int", i |-> n, s |-> ""]
PyStr(x) == [t |-> "str", i |-> 0, s |-> x]

\* Python truth value testing, as `not position` applies it
Falsy(v) ==
    CASE v.t = "none" -> TRUE
      [] v.t = "int" -> v.i = 0
      [] v.t = "str" -> v.s = ""

----------------------------------------------------------------------------
(* Containers *)

LayerKeys == {"definition_changes", "variant", "material", "quality", "quality_changes"}

NoLayers == [k \in LayerKeys |-> None]

NewContainer(oid, id, type) ==
    [oid |-> oid, id |-> id, name |-> id, type |-> type,
     definition |-> None,
     metaType |-> None, metaMachine |-> None, metaExtruder |-> None,
     position |-> PyNone,
     userChanges |-> NoObject, nextStack |-> NoObject,
     layers |-> NoLayers]

NoContainer == NewContainer(NoObject, None, None)

DefinitionContainer(oid, id, name, machine, position) ==
    [NewContainer(oid, id, "definition") EXCEPT
        !.name = name, !.metaMachine = machine, !.position = position]

\* The definitions the registry has loaded
Definitions ==
    { DefinitionContainer(1, "solo", "Solo", None, PyNone),
      DefinitionContainer(2, "duo", "Duo", None, PyNone),
      DefinitionContainer(3, "duo_e0", "Duo Left", "duo", PyInt(0)),
      DefinitionContainer(4, "duo_e1", "Duo Right", "duo", PyInt(1)),
      DefinitionContainer(5, "odd", "Odd", None, PyNone),
      DefinitionContainer(6, "odd_e", "Odd Nozzle", "odd", PyNone),
      DefinitionContainer(7, "odd_s", "Odd Second", "odd", PyStr("0")) }

----------------------------------------------------------------------------
(* The registry's services *)

Max(S) == CHOOSE x \in S : \A y \in S : y <= x

\* the identity of a new object: one no live object has
FreshOid(reg) == 1 + Max({c.oid : c \in reg} \cup {c.userChanges : c \in reg})

ByOid(reg, oid) == CHOOSE c \in reg : c.oid = oid

RECURSIVE InRegistryOrder(_)
InRegistryOrder(S) ==
    IF S = {} THEN <<>>
    ELSE LET first == CHOOSE c \in S : \A d \in S : c.oid <= d.oid
         IN  <<first>> \o InRegistryOrder(S \ {first})

findDefinitionContainersById(reg, id) ==
    InRegistryOrder({c \in reg : c.type = "definition" /\ c.id = id})

findDefinitionContainersByMachine(reg, machine) ==
    InRegistryOrder({c \in reg : c.type = "definition" /\ c.metaMachine = machine})

Taken(reg, name) == \E c \in reg : c.id = name \/ c.name = name

RECURSIVE Numbered(_, _, _)
Numbered(reg, name, i) ==
    LET candidate == name \o " #" \o ToString(i)
    IN  IF Taken(reg, candidate) THEN Numbered(reg, name, i + 1) ELSE candidate

uniqueName(reg, original) ==
    IF Taken(reg, original) THEN Numbered(reg, original, 2) ELSE original

createUniqueName(reg, container_type, current_name, new_name, fallback_name) ==
    uniqueName(reg, IF new_name = "" THEN fallback_name ELSE new_name)

addContainer(reg, container) == reg \cup {container}

----------------------------------------------------------------------------
(* The stacks' setters *)

setNextStack(stack, next_stack) == [stack EXCEPT !.nextStack = next_stack]

setLayer(stack, key, id) == [stack EXCEPT !.layers[key] = id]

----------------------------------------------------------------------------
(* Frames *)

IdleMachine ==
    [pc |-> "idle", name |-> None, definition_id |-> None,
     machine_definition |-> NoObject, new_global_stack |-> NoObject,
     todo |-> <<>>, seen |-> {}, result |-> NoObject, outcome |-> None]

IdleBuilder ==
    [pc |-> "idle", fn |-> None, caller |-> None, new_stack_id |-> None,
     definition |-> NoObject, machine_definition |-> NoObject,
     kwargs |-> {}, next_stack |-> NoObject,
     stack |-> NoContainer, user_container |-> NoContainer,
     outcome |-> None, failed_at |-> None]

Init ==
    /\ registry = Definitions
    /\ log = {}
    /\ m = IdleMachine
    /\ b = IdleBuilder
    /\ before = Definitions
    /\ calls = [machine |-> 0, builder |-> 0]

----------------------------------------------------------------------------
(* createGlobalStack and createExtruderStack: the objects they construct *)

setDefinition(container, definition) == [container EXCEPT !.definition = definition.id]

setUserChanges(stack, user_container) == [stack EXCEPT !.userChanges = user_container.oid]

NewGlobalStack(oid, new_stack_id, definition) ==
    setDefinition(NewContainer(oid, new_stack_id, "global_stack"), definition)

NewGlobalUserContainer(oid, new_stack_id, definition) ==
    setDefinition(
        [NewContainer(oid, new_stack_id \o "_user", "instance") EXCEPT
            !.metaType = "user", !.metaMachine = new_stack_id],
        definition)

NewExtruderStack(oid, new_stack_id, definition) ==
    [setDefinition(NewContainer(oid, new_stack_id, "extruder_stack"), definition) EXCEPT
        !.position = definition.position]

\* tagged as createGlobalStack tags its user container
NewExtruderUserContainer_machine(oid, new_stack_id, machine_definition) ==
    [NewContainer(oid, new_stack_id \o "_user", "instance") EXCEPT
        !.metaType = "user", !.metaMachine = new_stack_id]

NewExtruderUserContainer(oid, new_stack_id, machine_definition) ==
    [NewContainer(oid, new_stack_id \o "_user", "instance") EXCEPT
        !.metaType = "user", !.metaExtruder = new_stack_id]

----------------------------------------------------------------------------
(* createGlobalStack and createExtruderStack: the order of their statements *)

\* the material set before the variant
LayerOrder_materialFirst ==
    <<"definition_changes", "material", "variant", "quality", "quality_changes">>

LayerOrder == <<"definition_changes", "variant", "material", "quality", "quality_changes">>

\* the user container registered before its stack
RegistrationOrder_userFirst == <<"add_user", "add_stack">>

RegistrationOrder == <<"add_stack", "add_user">>

\* the containers registered as soon as they are constructed
Steps_registerFirst(fn) ==
    RegistrationOrder
        \o (IF fn = "createExtruderStack" THEN <<"next_stack">> ELSE <<>>)
        \o LayerOrder

\* the containers registered before the last layer is set
Steps_registerBeforeQualityChanges(fn) ==
    (IF fn = "createExtruderStack" THEN <<"next_stack">> ELSE <<>>)
        \o <<"definition_changes", "variant", "material", "quality">>
        \o RegistrationOrder \o <<"quality_changes">>

Steps(fn) ==
    (IF fn = "createExtruderStack" THEN <<"next_stack">> ELSE <<>>)
        \o LayerOrder \o RegistrationOrder

\* `if "<key>" in kwargs` guards every step but the two addContainer calls
Performed(kwargs, step) ==
    \/ \E j \in 1..Len(RegistrationOrder) : RegistrationOrder[j] = step
    \/ step \in kwargs

Min(S) == CHOOSE x \in S : \A y \in S : x <= y

\* the statement that runs after the one at pc
NextPc(fn, kwargs, pc) ==
    LET s == Steps(fn)
        at == IF pc = "construct" THEN 0 ELSE CHOOSE j \in 1..Len(s) : s[j] = pc
        later == {j \in (at + 1)..Len(s) : Performed(kwargs, s[j])}
    IN  IF later = {} THEN "return" ELSE s[Min(later)]

----------------------------------------------------------------------------
(* createGlobalStack and createExtruderStack: the steps *)

EnterBuilder(fn, caller, new_stack_id, definition, machine_definition, kwargs, next_stack) ==
    [IdleBuilder EXCEPT
        !.pc = "construct", !.fn = fn, !.caller = caller,
        !.new_stack_id = new_stack_id, !.definition = definition,
        !.machine_definition = machine_definition,
        !.kwargs = kwargs, !.next_stack = next_stack]

\* an exception leaves the builder and, uncaught, createMachine when it is the caller
Raise(step) ==
    /\ b' = [b EXCEPT !.pc = "done", !.outcome = "raised", !.failed_at = step]
    /\ m' = IF b.caller = "createMachine"
            THEN [m EXCEPT !.pc = "done", !.outcome = "raised", !.result = NoObject]
            ELSE m

Advance(step) == b.pc = step /\ Performed(b.kwargs, step)

Construct ==
    /\ b.pc = "construct"
    /\ LET oid == FreshOid(registry)
           definition == ByOid(registry, b.definition)
           stack == IF b.fn = "createExtruderStack"
                    THEN NewExtruderStack(oid, b.new_stack_id, definition)
                    ELSE NewGlobalStack(oid, b.new_stack_id, definition)
           user_container ==
                    IF b.fn = "createExtruderStack"
                    THEN NewExtruderUserContainer(oid + 1, b.new_stack_id,
                                                  ByOid(registry, b.machine_definition))
                    ELSE NewGlobalUserContainer(oid + 1, b.new_stack_id, definition)
       IN  b' = [b EXCEPT !.stack = setUserChanges(stack, user_container),
                          !.user_container = user_container,
                          !.pc = NextPc(b.fn, b.kwargs, "construct")]
    /\ UNCHANGED <<registry, log, m, before, calls>>

SetNextStack ==
    /\ Advance("next_stack")
    /\ b' = [b EXCEPT !.stack = setNextStack(b.stack, b.next_stack),
                      !.pc = NextPc(b.fn, b.kwargs, "next_stack")]
    /\ UNCHANGED <<registry, log, m, before, calls>>

\* one of the five layer setters: it sets the layer, or it raises
SetLayer(key) ==
    /\ Advance(key)
    /\ \/ /\ b' = [b EXCEPT !.stack = setLayer(b.stack, key, "default"),
                            !.pc = NextPc(b.fn, b.kwargs, key)]
          /\ m' = m
       \/ Raise(key)
    /\ UNCHANGED <<registry, log, before, calls>>

SetDefinitionChanges == SetLayer("definition_changes")
SetVariant == SetLayer("variant")
SetMaterial == SetLayer("material")
SetQuality == SetLayer("quality")
SetQualityChanges == SetLayer("quality_changes")

AddStack ==
    /\ Advance("add_stack")
    /\ \/ /\ registry' = addContainer(registry, b.stack)
          /\ b' = [b EXCEPT !.pc = NextPc(b.fn, b.kwargs, "add_stack")]
          /\ m' = m
       \/ /\ Raise("add_stack")
          /\ registry' = registry
    /\ UNCHANGED <<log, before, calls>>

AddUserContainer ==
    /\ Advance("add_user")
    /\ \/ /\ registry' = addContainer(registry, b.user_container)
          /\ b' = [b EXCEPT !.pc = NextPc(b.fn, b.kwargs, "add_user")]
          /\ m' = m
       \/ /\ Raise("add_user")
          /\ registry' = registry
    /\ UNCHANGED <<log, before, calls>>

\* `return stack`: back in createMachine, the loop over the machine's extruder
\* definitions starts (the list is computed once) or goes on
Return ==
    /\ b.pc = "return"
    /\ b' = [b EXCEPT !.pc = "done", !.outcome = "returned"]
    /\ m' = IF b.caller # "createMachine" THEN m
            ELSE IF m.pc = "await_global"
            THEN LET machine_definition == ByOid(registry, m.machine_definition)
                     found == findDefinitionContainersByMachine(registry, machine_definition.id)
                 IN  [m EXCEPT !.new_global_stack = b.stack.oid,
                               !.todo = [j \in 1..Len(found) |-> found[j].oid],
                               !.pc = "loop"]
            ELSE [m EXCEPT !.pc = "loop"]
    /\ UNCHANGED <<registry, log, before, calls>>

BuilderStep ==
    \/ Construct
    \/ SetNextStack
    \/ SetDefinitionChanges
    \/ SetVariant
    \/ SetMaterial
    \/ SetQuality
    \/ SetQualityChanges
    \/ AddStack
    \/ AddUserContainer
    \/ Return

----------------------------------------------------------------------------
(* createMachine *)

MachineNames == {"a", "a_user", ""}
DefinitionIds == {"solo", "duo", "odd", "ghost"}

GlobalKwargs == {"quality", "material", "variant"}
\* the extruder stacks built without next_stack
ExtruderKwargs_noNextStack == {"quality", "material", "variant"}

ExtruderKwargs == {"quality", "material", "variant", "next_stack"}

\* an exception in place of `return None`
NotFoundOutcome_raised == "raised"

NotFoundOutcome == "returned"

NotFoundWarning(definition_id) ==
    [level |-> "w", message |-> "Definition {definition} was not found!", about |-> definition_id]

NoPositionWarning(extruder_id) ==
    [level |-> "w", message |-> "Extruder definition %s specifies no position metadata entry.",
     about |-> extruder_id]

\* no API call is running
TopIdle == m.pc \in {"idle", "done"} /\ b.pc \in {"idle", "done"}

CallCreateMachine(name, definition_id) ==
    /\ TopIdle
    /\ calls.machine < MaxMachineCalls
    /\ m' = [IdleMachine EXCEPT !.pc = "find", !.name = name, !.definition_id = definition_id]
    /\ b' = IdleBuilder
    /\ before' = registry
    /\ calls' = [calls EXCEPT !.machine = @ + 1]
    /\ UNCHANGED <<registry, log>>

DefinitionNotFound ==
    /\ m.pc = "find"
    /\ findDefinitionContainersById(registry, m.definition_id) = <<>>
    /\ log' = log \cup {NotFoundWarning(m.definition_id)}
    /\ m' = [m EXCEPT !.pc = "done", !.result = NoObject, !.outcome = NotFoundOutcome]
    /\ UNCHANGED <<registry, b, before, calls>>

BuildGlobalStack ==
    /\ m.pc = "find"
    /\ LET definitions == findDefinitionContainersById(registry, m.definition_id)
       IN  /\ definitions # <<>>
           /\ LET machine_definition == definitions[1]
                  name == createUniqueName(registry, "machine", "", m.name,
                                           machine_definition.name)
              IN  /\ m' = [m EXCEPT !.machine_definition = machine_definition.oid,
                                    !.name = name, !.pc = "await_global"]
                  /\ b' = EnterBuilder("createGlobalStack", "createMachine", name,
                                       machine_definition.oid, NoObject,
                                       GlobalKwargs, NoObject)
    /\ UNCHANGED <<registry, log, before, calls>>

BuildExtruderStack ==
    /\ m.pc = "loop"
    /\ m.todo # <<>>
    /\ LET extruder_definition == ByOid(registry, Head(m.todo))
           position == extruder_definition.position
           new_extruder_id == uniqueName(registry, extruder_definition.id)
       IN  /\ log' = IF Falsy(position)
                     THEN log \cup {NoPositionWarning(extruder_definition.id)}
                     ELSE log
           /\ b' = EnterBuilder("createExtruderStack", "createMachine", new_extruder_id,
                                extruder_definition.oid, m.machine_definition,
                                ExtruderKwargs, m.new_global_stack)
           /\ m' = [m EXCEPT !.todo = Tail(@), !.seen = @ \cup {extruder_definition.oid},
                             !.pc = "await_extruder"]
    /\ UNCHANGED <<registry, before, calls>>

ReturnMachine ==
    /\ m.pc = "loop"
    /\ m.todo = <<>>
    /\ m' = [m EXCEPT !.pc = "done", !.result = m.new_global_stack, !.outcome = "returned"]
    /\ UNCHANGED <<registry, log, b, before, calls>>

Next ==
    \/ /\ TopIdle
       /\ calls.machine < MaxMachineCalls
       /\ \E name \in MachineNames, definition_id \in DefinitionIds :
             CallCreateMachine(name, definition_id)
    \/ DefinitionNotFound
    \/ BuildGlobalStack
    \/ BuilderStep
    \/ BuildExtruderStack
    \/ ReturnMachine

Spec == Init /\ [][Next]_vars

----------------------------------------------------------------------------
(* createGlobalStack and createExtruderStack called on their own *)

BuilderIds == {"x", "a"}

GlobalStacks(reg) == {c \in reg : c.type = "global_stack"}

CallCreateGlobalStack(new_stack_id, definition, kwargs) ==
    /\ TopIdle
    /\ calls.builder < MaxBuilderCalls
    /\ m' = IdleMachine
    /\ b' = EnterBuilder("createGlobalStack", "caller", new_stack_id, definition.oid,
                         NoObject, kwargs, NoObject)
    /\ before' = registry
    /\ calls' = [calls EXCEPT !.builder = @ + 1]
    /\ UNCHANGED <<registry, log>>

CallCreateExtruderStack(new_stack_id, definition, machine_definition, kwargs, next_stack) ==
    /\ TopIdle
    /\ calls.builder < MaxBuilderCalls
    /\ m' = IdleMachine
    /\ b' = EnterBuilder("createExtruderStack", "caller", new_stack_id, definition.oid,
                         machine_definition.oid, kwargs, next_stack)
    /\ before' = registry
    /\ calls' = [calls EXCEPT !.builder = @ + 1]
    /\ UNCHANGED <<registry, log>>

\* a registry in which createMachine("a", "solo") has returned
RegistryWithMachine ==
    LET definition == ByOid(Definitions, 1)
        oid == FreshOid(Definitions)
        user_container == NewGlobalUserContainer(oid + 1, "a", definition)
        stack == setUserChanges(NewGlobalStack(oid, "a", definition), user_container)
        layered == setLayer(setLayer(setLayer(stack, "variant", "default"),
                                     "material", "default"), "quality", "default")
    IN  addContainer(addContainer(Definitions, layered), user_container)

InitBuilder ==
    /\ registry = RegistryWithMachine
    /\ log = {}
    /\ m = IdleMachine
    /\ b = IdleBuilder
    /\ before = RegistryWithMachine
    /\ calls = [machine |-> 0, builder |-> 0]

NextBuilder ==
    \/ /\ TopIdle
       /\ calls.builder < MaxBuilderCalls
       /\ \E new_stack_id \in BuilderIds, kwargs \in SUBSET LayerKeys :
             \/ CallCreateGlobalStack(new_stack_id, ByOid(registry, 1), kwargs)
             \/ CallCreateExtruderStack(new_stack_id, ByOid(registry, 3), ByOid(registry, 2),
                                        kwargs, NoObject)
             \/ \E next_stack \in GlobalStacks(registry) :
                   CallCreateExtruderStack(new_stack_id, ByOid(registry, 3),
                                           ByOid(registry, 2),
                                           kwargs \cup {"next_stack"}, next_stack.oid)
    \/ BuilderStep

SpecBuilder == InitBuilder /\ [][NextBuilder]_vars

\* the registry SpecBuilder starts from is one createMachine produces
MachineRegistryReached ==
    m.pc = "done" /\ m.outcome = "returned" /\ registry = RegistryWithMachine

----------------------------------------------------------------------------
(* Properties *)

\* the object, not merely an object of the same id, is in the registry
Registered(container) == \E c \in registry : c.oid = container.oid

NewStacks(type) == {c \in registry \ before : c.type = type}

MachineReturned ==
    /\ m.pc = "done"
    /\ m.outcome = "returned"
    /\ findDefinitionContainersById(before, m.definition_id) # <<>>

C2_MissingDefinition ==
    (m.pc = "done" /\ findDefinitionContainersById(before, m.definition_id) = <<>>) =>
        /\ m.outcome = "returned"
        /\ m.result = NoObject
        /\ registry = before

C2_Witness ==
    /\ m.pc = "done"
    /\ m.definition_id = "ghost"
    /\ GlobalStacks(before) # {}

\* C3: when setting one of the five optional layers has failed, the builder has
\* ended by that failure and neither the stack under construction nor its user
\* container is in the registry.
C3_LayerFailureRegistersNothing ==
    (b.failed_at \in LayerKeys) =>
        /\ b.pc = "done"
        /\ b.outcome = "raised"
        /\ ~Registered(b.stack)
        /\ ~Registered(b.user_container)

C3_Witness ==
    /\ b.fn = "createExtruderStack"
    /\ b.kwargs = LayerKeys \cup {"next_stack"}
    /\ b.failed_at = "quality_changes"

\* C4 as stated: whenever a builder call has ended, normally or by a failure at
\* any step, the registry holds both the stack and its user container or
\* neither.
C4_BothOrNeither ==
    (b.pc = "done") => (Registered(b.stack) <=> Registered(b.user_container))

\* C4 as amended: a builder call that has returned has registered both the
\* stack and its user container; one ended by a failure at any step but the
\* second addContainer has registered neither; one ended by a failure of the
\* second addContainer has registered the stack without its user container.
C4_RegisteredTogether ==
    (b.pc = "done") =>
        /\ b.outcome = "returned" =>
              Registered(b.stack) /\ Registered(b.user_container)
        /\ (b.outcome = "raised" /\ b.failed_at # "add_user") =>
              ~Registered(b.stack) /\ ~Registered(b.user_container)
        /\ (b.outcome = "raised" /\ b.failed_at = "add_user") =>
              Registered(b.stack) /\ ~Registered(b.user_container)

C4_Witness ==
    /\ b.pc = "done"
    /\ b.fn = "createGlobalStack"
    /\ b.failed_at = "add_stack"
    /\ b.kwargs = LayerKeys

\* the steps in the order the claim fixes
FixedOrder ==
    <<"next_stack", "definition_changes", "variant", "material", "quality",
      "quality_changes", "add_stack", "add_user">>

\* the step has acted on the stack under construction
Acted(step) ==
    CASE step \in LayerKeys -> b.stack.layers[step] # None
      [] step = "next_stack" -> b.stack.nextStack # NoObject
      [] step = "add_stack" -> Registered(b.stack)
      [] step = "add_user" -> Registered(b.user_container)

\* the call is to perform the step
Asked(step) == step \in b.kwargs \/ step \in {"add_stack", "add_user"}

\* C5: in every builder call, a step that has acted finds every step that
\* precedes it in the order next_stack, definition-changes, variant, material,
\* quality, quality-changes, registration, and that the call is to perform,
\* to have acted already.
C5_FixedOrder ==
    \A i, j \in 1..Len(FixedOrder) :
        (i < j /\ Acted(FixedOrder[j]) /\ Asked(FixedOrder[i])) => Acted(FixedOrder[i])

C5_Witness ==
    /\ b.fn = "createExtruderStack"
    /\ b.pc = "quality"
    /\ b.kwargs = {"next_stack", "variant", "material", "quality"}
    /\ Acted("next_stack") /\ Acted("variant") /\ Acted("material")

\* every stack of the registry has its user container beside it
Complete(reg) ==
    \A c \in reg : c.userChanges # NoObject => \E u \in reg : u.oid = c.userChanges

\* C6: every identifier createMachine registers differs from every identifier
\* already in the registry when the call was entered and from every other
\* identifier the same call registers (stated for calls entered with a
\* registry in which no earlier call left a stack without its user container).
C6_UniqueIds ==
    (m.pc # "idle" /\ Complete(before)) =>
        \A c \in registry \ before :
            /\ \A d \in before : d.id # c.id
            /\ \A d \in registry \ before : d.id = c.id => d = c

\* the user container set as the stack's user changes
Built == b.stack.userChanges # NoObject

\* C7: a user container built by createExtruderStack carries extruder=<id of
\* its stack> and no machine entry, one built by createGlobalStack carries
\* machine=<id of its stack> and no extruder entry, and every registered user
\* container carries exactly one of the two.
C7_UserMetaData ==
    /\ (Built /\ b.fn = "createExtruderStack") =>
          /\ b.user_container.metaExtruder = b.stack.id
          /\ b.user_container.metaMachine = None
    /\ (Built /\ b.fn = "createGlobalStack") =>
          /\ b.user_container.metaMachine = b.stack.id
          /\ b.user_container.metaExtruder = None
    /\ \A c \in registry : c.metaType = "user" =>
          ((c.metaMachine = None) <=> (c.metaExtruder # None))

C7_Witness ==
    /\ b.fn = "createExtruderStack"
    /\ b.outcome = "returned"
    /\ Registered(b.user_container)

\* C8: the user container built by createExtruderStack has a definition when
\* it is set as the stack's user changes, as the one built by
\* createGlobalStack has.
C8_UserContainerDefinition ==
    Built => b.user_container.definition # None

\* C9: for each extruder definition createMachine has enumerated, the 'no
\* position metadata entry' warning is logged if and only if the definition
\* has no position entry.
C9_WarningIffNoPosition ==
    \A oid \in m.seen :
        LET extruder_definition == ByOid(registry, oid)
        IN  NoPositionWarning(extruder_definition.id) \in log
                <=> extruder_definition.position = PyNone

ExtruderFailed ==
    /\ m.pc = "done"
    /\ m.outcome = "raised"
    /\ b.fn = "createExtruderStack"

\* what the call registered before the extruder stack that failed
EarlierKept ==
    /\ m.result = NoObject
    /\ before \subseteq registry
    /\ \E g \in registry : g.oid = m.new_global_stack
    /\ \E u \in registry : u.oid = ByOid(registry, m.new_global_stack).userChanges
    /\ Cardinality({e \in NewStacks("extruder_stack") : e.oid # b.stack.oid})
          = Cardinality(m.seen) - 1
    /\ \A e \in NewStacks("extruder_stack") :
          e.oid # b.stack.oid => \E u \in registry : u.oid = e.userChanges

====
